---- MODULE Spec2Model ----
(***************************************************************************)
(* Model of src/streamlit_app/app.py: the Garmin Connect authentication    *)
(* page.  Every user interaction of a browser session is one run of the    *)
(* script from top to bottom; st.rerun() aborts the run and starts the     *)
(* next one at once.  The Garmin client (login, resume_login, garth.dump)  *)
(* and the file system are external: their outcomes are chosen             *)
(* nondeterministically.                                                   *)
(***************************************************************************)
EXTENDS Integers, Sequences, FiniteSets

(* ---------------------------------------------------------------- bounds *)

\* Browser sessions that share TOKEN_DIR.
NumSessions == 2
\* Distinct challenge contexts garmin.login() can return with "needs_mfa".
NumContexts == 2

Sessions == 1..NumSessions
Contexts == 1..NumContexts

(* ------------------------------------------------------------ the values *)

\* Python's None for st.session_state.mfa_data.
None == 0
\* What the user can type into the text inputs ("" is an empty input).
Emails == {"", "a@b.com"}
Passwords == {"", "pw"}
MfaCodes == {"", "123456"}

\* A Garmin(email, password, ...) object; login_result2 records the second
\* value its login() call returned (None before / without a challenge).
GarminObjs == [email : Emails \ {""}, password : Passwords \ {""}, login_result2 : Contexts \cup {None}]
\* st.session_state.garmin_obj = None
NoGarmin == [email |-> "", password |-> "", login_result2 |-> None]

Garmin(email, password) == [email |-> email, password |-> password, login_result2 |-> None]

\* The entries garth.dump(TOKEN_DIR) writes, in the order it writes them.
DumpOrder == <<"oauth1_token.json", "oauth2_token.json">>
TokenFiles == {DumpOrder[i] : i \in 1..Len(DumpOrder)}
\* An entry of TOKEN_DIR is absent, left by an earlier run of the app, or
\* written by the dump of one of the sessions.
NoFile == -1
PriorRun == 0
Writers == Sessions \cup {PriorRun}
EmptyDir == [f \in TokenFiles |-> NoFile]

\* What one run of the script can put on the page; a spinner is all a session
\* shows while the external calls of its handler are running.
Widgets == {"clear_button", "login_form", "mfa_form", "success",
            "login_spinner", "mfa_spinner"}

VARIABLES
    authenticated,  \* st.session_state.authenticated, per session
    needs_mfa,      \* st.session_state.needs_mfa, per session
    garmin_obj,     \* st.session_state.garmin_obj, per session
    mfa_data,       \* st.session_state.mfa_data, per session
    token_dir,      \* the entries of TOKEN_DIR and who wrote each
    screen,         \* the widgets the last run of the script rendered, per session
    log             \* what the last interaction did: its external calls and messages

vars == <<authenticated, needs_mfa, garmin_obj, mfa_data, token_dir, screen, log>>
session_state == <<authenticated, needs_mfa, garmin_obj, mfa_data>>

(* ------------------------------------------------- the script's conditions *)

\* token_files_exist = Path(TOKEN_DIR).exists() and any(Path(TOKEN_DIR).iterdir())
token_files_exist(dir) == \E f \in TokenFiles : dir[f] # NoFile

\* The login form guarded by the directory alone.
ShowLoginForm_IgnoresAuthenticated(auth, tfe) == ~tfe

\* The login form guarded by the flag alone.
ShowLoginForm_IgnoresDirectory(auth, tfe) == ~auth

\* if not st.session_state.authenticated and not token_files_exist:
ShowLoginForm(auth, tfe) == ~auth /\ ~tfe

\* The MFA form guarded by needs_mfa alone.
ShowMfaForm_IgnoresAuthenticated(mfa, auth) == mfa

\* if st.session_state.needs_mfa and not st.session_state.authenticated:
ShowMfaForm(mfa, auth) == mfa /\ ~auth

\* if st.session_state.authenticated or token_files_exist:
ShowSuccess(auth, tfe) == auth \/ tfe

\* The widgets of one complete run of the script, given the value of
\* token_files_exist it computed and the session state it ends with.
Render(auth, mfa, tfe) ==
    (IF tfe THEN {"clear_button"} ELSE {})
    \cup (IF ShowLoginForm(auth, tfe) THEN {"login_form"} ELSE {})
    \cup (IF ShowMfaForm(mfa, auth) THEN {"mfa_form"} ELSE {})
    \cup (IF ShowSuccess(auth, tfe) THEN {"success"} ELSE {})

(* ------------------------------------------------------ the external calls *)

NoCall == <<>>
\* One external call of a run: the operation, the Garmin object it was made
\* on, the challenge context and code passed or returned, and how it ended
\* ("ok", "needs_mfa" or "raised").
Call(op, g, ctx, code, result) ==
    [op |-> op, on |-> g, ctx |-> ctx, code |-> code, result |-> result]

\* The exceptions the handlers tell apart, and the banner each one gets.
Exceptions == {"GarminConnectAuthenticationError", "Exception"}
LoginBanner(exc) ==
    IF exc = "GarminConnectAuthenticationError" THEN "Authentication failed" ELSE "Error"
MfaBanner(exc) ==
    IF exc = "GarminConnectAuthenticationError" THEN "MFA verification failed" ELSE "Error"

\* The validation with "and" for "or".
InputMissing_BothEmpty(email, password) == email = "" /\ password = ""

\* if not email or not password:
InputMissing(email, password) == email = "" \/ password = ""

\* The MFA handler without its validation.
CodeMissing_Never(mfa_code) == FALSE

\* if not mfa_code:
CodeMissing(mfa_code) == mfa_code = ""

\* A dump that does not overwrite the files it finds.
DumpOk_KeepsExisting(dir, s) == [f \in TokenFiles |-> IF dir[f] # NoFile THEN dir[f] ELSE s]

\* garmin.garth.dump(TOKEN_DIR) returning: every file of the bundle is written.
DumpOk(dir, s) == [f \in TokenFiles |-> s]

\* garmin.garth.dump(TOKEN_DIR) raising: the first k files were written.
DumpFailed(dir, s, k) ==
    [f \in TokenFiles |-> IF \E i \in 1..k : DumpOrder[i] = f THEN s ELSE dir[f]]

\* What one run did: the session, the button pressed ("rerun" when none), the
\* submitted inputs, the external calls in order, the messages shown and
\* whether the run ended in st.rerun().
LogEntry(s, event, input, calls, errors, rerun) ==
    [session |-> s, event |-> event, input |-> input, calls |-> calls,
     errors |-> errors, rerun |-> rerun]

(* -------------------------------------------------------------------- Init *)

\* The first run of the script in every session: lines 110-117 set the four
\* keys, and the page is rendered for the directory as it was found.
Init ==
    /\ authenticated = [s \in Sessions |-> FALSE]
    /\ needs_mfa = [s \in Sessions |-> FALSE]
    /\ garmin_obj = [s \in Sessions |-> NoGarmin]
    /\ mfa_data = [s \in Sessions |-> None]
    /\ token_dir \in {EmptyDir, [f \in TokenFiles |-> PriorRun]}
    /\ screen = [s \in Sessions |-> Render(FALSE, FALSE, token_files_exist(token_dir))]
    /\ log = LogEntry(0, "start", <<>>, NoCall, {}, FALSE)

(* ----------------------------------------------------------------- actions *)

\* A run of the script in which no button was pressed.
Rerun(s) ==
    /\ screen' = [screen EXCEPT ![s] =
                    Render(authenticated[s], needs_mfa[s], token_files_exist(token_dir))]
    /\ log' = LogEntry(s, "rerun", <<>>, NoCall, {}, FALSE)
    /\ UNCHANGED <<session_state, token_dir>>

\* The loop leaving after its first unlink.
ClearTokensOk_FirstOnly(s) ==
    /\ "clear_button" \in screen[s]
    /\ token_files_exist(token_dir)
    /\ token_dir' = [token_dir EXCEPT ![DumpOrder[1]] = NoFile]
    /\ screen' = [screen EXCEPT ![s] =
                    Render(authenticated[s], needs_mfa[s], token_files_exist(token_dir'))]
    /\ log' = LogEntry(s, "clear", <<>>, NoCall, {}, TRUE)
    /\ UNCHANGED session_state

\* "Re-authenticate (Clear existing tokens)" pressed and every unlink succeeds:
\* the directory is emptied and st.rerun() runs the script again.
ClearTokensOk(s) ==
    /\ "clear_button" \in screen[s]
    /\ token_files_exist(token_dir)
    /\ token_dir' = EmptyDir
    /\ screen' = [screen EXCEPT ![s] =
                    Render(authenticated[s], needs_mfa[s], token_files_exist(token_dir'))]
    /\ log' = LogEntry(s, "clear", <<>>, NoCall, {}, TRUE)
    /\ UNCHANGED session_state

\* st.rerun() reached after the except branch as well.
ClearTokensFailed_Reruns(s, left) ==
    /\ "clear_button" \in screen[s]
    /\ token_files_exist(token_dir)
    /\ left # {} /\ \A f \in left : token_dir[f] # NoFile
    /\ token_dir' = [f \in TokenFiles |-> IF f \in left THEN token_dir[f] ELSE NoFile]
    /\ screen' = [screen EXCEPT ![s] =
                    Render(authenticated[s], needs_mfa[s], token_files_exist(token_dir'))]
    /\ log' = LogEntry(s, "clear", <<>>, NoCall, {"Error clearing tokens"}, TRUE)
    /\ UNCHANGED session_state

\* The button pressed and an unlink raises: the files unlinked before it stay
\* deleted, the error is shown and the run goes on with the value of
\* token_files_exist it computed at its start.
ClearTokensFailed(s, left) ==
    /\ "clear_button" \in screen[s]
    /\ token_files_exist(token_dir)
    /\ left # {} /\ \A f \in left : token_dir[f] # NoFile
    /\ token_dir' = [f \in TokenFiles |-> IF f \in left THEN token_dir[f] ELSE NoFile]
    /\ screen' = [screen EXCEPT ![s] = Render(authenticated[s], needs_mfa[s], TRUE)]
    /\ log' = LogEntry(s, "clear", <<>>, NoCall, {"Error clearing tokens"}, FALSE)
    /\ UNCHANGED session_state

\* The login form is part of this run and its submit button was pressed.
LoginSubmitted(s) ==
    /\ "login_form" \in screen[s]
    /\ ShowLoginForm(authenticated[s], token_files_exist(token_dir))

\* Login pressed with an empty email or password: st.error, nothing else.
LoginValidationError(s, email, password) ==
    /\ LoginSubmitted(s)
    /\ InputMissing(email, password)
    /\ screen' = [screen EXCEPT ![s] = Render(authenticated[s], needs_mfa[s], FALSE)]
    /\ log' = LogEntry(s, "login", <<email, password>>, NoCall,
                       {"Please enter both email and password."}, FALSE)
    /\ UNCHANGED <<session_state, token_dir>>

\* The Garmin object stored in the session before login() is called.
LoginFailed_StoresGarmin(s, email, password, exc) ==
    /\ LoginSubmitted(s)
    /\ ~InputMissing(email, password)
    /\ garmin_obj' = [garmin_obj EXCEPT ![s] = Garmin(email, password)]
    /\ screen' = [screen EXCEPT ![s] = Render(authenticated[s], needs_mfa[s], FALSE)]
    /\ log' = LogEntry(s, "login", <<email, password>>,
                       <<Call("login", Garmin(email, password), None, "", "raised")>>,
                       {LoginBanner(exc)}, FALSE)
    /\ UNCHANGED <<authenticated, needs_mfa, mfa_data, token_dir>>

\* garmin.login() raises: the banner is shown and the run goes on.
LoginFailed(s, email, password, exc) ==
    /\ LoginSubmitted(s)
    /\ ~InputMissing(email, password)
    /\ screen' = [screen EXCEPT ![s] = Render(authenticated[s], needs_mfa[s], FALSE)]
    /\ log' = LogEntry(s, "login", <<email, password>>,
                       <<Call("login", Garmin(email, password), None, "", "raised")>>,
                       {LoginBanner(exc)}, FALSE)
    /\ UNCHANGED <<session_state, token_dir>>

\* The sentinel branch without the assignment to mfa_data.
LoginNeedsMfa_ContextNotStored(s, email, password, ctx) ==
    LET garmin == [Garmin(email, password) EXCEPT !.login_result2 = ctx] IN
    /\ LoginSubmitted(s)
    /\ ~InputMissing(email, password)
    /\ needs_mfa' = [needs_mfa EXCEPT ![s] = TRUE]
    /\ garmin_obj' = [garmin_obj EXCEPT ![s] = garmin]
    /\ screen' = [screen EXCEPT ![s] =
                    Render(authenticated[s], TRUE, token_files_exist(token_dir))]
    /\ log' = LogEntry(s, "login", <<email, password>>,
                       <<Call("login", garmin, ctx, "", "needs_mfa")>>, {}, TRUE)
    /\ UNCHANGED <<authenticated, mfa_data, token_dir>>

\* The sentinel branch falling through to the dump and the flag.
LoginNeedsMfa_FallsThrough(s, email, password, ctx) ==
    LET garmin == [Garmin(email, password) EXCEPT !.login_result2 = ctx] IN
    /\ LoginSubmitted(s)
    /\ ~InputMissing(email, password)
    /\ needs_mfa' = [needs_mfa EXCEPT ![s] = TRUE]
    /\ garmin_obj' = [garmin_obj EXCEPT ![s] = garmin]
    /\ mfa_data' = [mfa_data EXCEPT ![s] = ctx]
    /\ token_dir' = DumpOk(token_dir, s)
    /\ authenticated' = [authenticated EXCEPT ![s] = TRUE]
    /\ screen' = [screen EXCEPT ![s] = Render(TRUE, TRUE, token_files_exist(token_dir'))]
    /\ log' = LogEntry(s, "login", <<email, password>>,
                       <<Call("login", garmin, ctx, "", "needs_mfa"),
                         Call("dump", garmin, None, "", "ok")>>, {}, TRUE)

\* garmin_obj assigned only while it is still None.
LoginNeedsMfa_KeepsFirstGarmin(s, email, password, ctx) ==
    LET garmin == [Garmin(email, password) EXCEPT !.login_result2 = ctx] IN
    /\ LoginSubmitted(s)
    /\ ~InputMissing(email, password)
    /\ needs_mfa' = [needs_mfa EXCEPT ![s] = TRUE]
    /\ garmin_obj' = [garmin_obj EXCEPT ![s] = IF @ = NoGarmin THEN garmin ELSE @]
    /\ mfa_data' = [mfa_data EXCEPT ![s] = ctx]
    /\ screen' = [screen EXCEPT ![s] =
                    Render(authenticated[s], TRUE, token_files_exist(token_dir))]
    /\ log' = LogEntry(s, "login", <<email, password>>,
                       <<Call("login", garmin, ctx, "", "needs_mfa")>>, {}, TRUE)
    /\ UNCHANGED <<authenticated, token_dir>>

\* garmin.login() returns ("needs_mfa", ctx): the challenge is stored and
\* st.rerun() runs the script again.
LoginNeedsMfa(s, email, password, ctx) ==
    LET garmin == [Garmin(email, password) EXCEPT !.login_result2 = ctx] IN
    /\ LoginSubmitted(s)
    /\ ~InputMissing(email, password)
    /\ needs_mfa' = [needs_mfa EXCEPT ![s] = TRUE]
    /\ garmin_obj' = [garmin_obj EXCEPT ![s] = garmin]
    /\ mfa_data' = [mfa_data EXCEPT ![s] = ctx]
    /\ screen' = [screen EXCEPT ![s] =
                    Render(authenticated[s], TRUE, token_files_exist(token_dir))]
    /\ log' = LogEntry(s, "login", <<email, password>>,
                       <<Call("login", garmin, ctx, "", "needs_mfa")>>, {}, TRUE)
    /\ UNCHANGED <<authenticated, token_dir>>

\* The success branch without the assignment to authenticated.
LoginOk_FlagNotSet(s, email, password) ==
    LET garmin == Garmin(email, password) IN
    /\ LoginSubmitted(s)
    /\ ~InputMissing(email, password)
    /\ token_dir' = DumpOk(token_dir, s)
    /\ screen' = [screen EXCEPT ![s] =
                    Render(authenticated[s], needs_mfa[s], token_files_exist(token_dir'))]
    /\ log' = LogEntry(s, "login", <<email, password>>,
                       <<Call("login", garmin, None, "", "ok"),
                         Call("dump", garmin, None, "", "ok")>>, {}, TRUE)
    /\ UNCHANGED session_state

\* garmin.login() returns without a challenge and the dump succeeds.
LoginOk(s, email, password) ==
    LET garmin == Garmin(email, password) IN
    /\ LoginSubmitted(s)
    /\ ~InputMissing(email, password)
    /\ token_dir' = DumpOk(token_dir, s)
    /\ authenticated' = [authenticated EXCEPT ![s] = TRUE]
    /\ screen' = [screen EXCEPT ![s] =
                    Render(TRUE, needs_mfa[s], token_files_exist(token_dir'))]
    /\ log' = LogEntry(s, "login", <<email, password>>,
                       <<Call("login", garmin, None, "", "ok"),
                         Call("dump", garmin, None, "", "ok")>>, {}, TRUE)
    /\ UNCHANGED <<needs_mfa, garmin_obj, mfa_data>>

\* The flag assigned before the dump instead of after it.
LoginDumpFailed_FlagSetFirst(s, email, password, k) ==
    LET garmin == Garmin(email, password) IN
    /\ LoginSubmitted(s)
    /\ ~InputMissing(email, password)
    /\ token_dir' = DumpFailed(token_dir, s, k)
    /\ authenticated' = [authenticated EXCEPT ![s] = TRUE]
    /\ screen' = [screen EXCEPT ![s] = Render(TRUE, needs_mfa[s], FALSE)]
    /\ log' = LogEntry(s, "login", <<email, password>>,
                       <<Call("login", garmin, None, "", "ok"),
                         Call("dump", garmin, None, "", "raised")>>, {"Error"}, FALSE)
    /\ UNCHANGED <<needs_mfa, garmin_obj, mfa_data>>

\* garmin.login() returns without a challenge and the dump raises after
\* writing k files: the generic banner is shown and the run goes on.
LoginDumpFailed(s, email, password, k) ==
    LET garmin == Garmin(email, password) IN
    /\ LoginSubmitted(s)
    /\ ~InputMissing(email, password)
    /\ token_dir' = DumpFailed(token_dir, s, k)
    /\ screen' = [screen EXCEPT ![s] = Render(authenticated[s], needs_mfa[s], FALSE)]
    /\ log' = LogEntry(s, "login", <<email, password>>,
                       <<Call("login", garmin, None, "", "ok"),
                         Call("dump", garmin, None, "", "raised")>>, {"Error"}, FALSE)
    /\ UNCHANGED session_state

\* The MFA form is part of this run and its submit button was pressed.
MfaSubmitted(s) ==
    /\ "mfa_form" \in screen[s]
    /\ ShowMfaForm(needs_mfa[s], authenticated[s])

\* Verify pressed with an empty code: st.error, nothing else.
MfaValidationError(s, mfa_code) ==
    /\ MfaSubmitted(s)
    /\ CodeMissing(mfa_code)
    /\ screen' = [screen EXCEPT ![s] =
                    Render(authenticated[s], needs_mfa[s], token_files_exist(token_dir))]
    /\ log' = LogEntry(s, "mfa", <<mfa_code>>, NoCall, {"Please enter the MFA code."}, FALSE)
    /\ UNCHANGED <<session_state, token_dir>>

\* The except branch giving up the pending challenge.
MfaFailed_DropsChallenge(s, mfa_code, exc) ==
    /\ MfaSubmitted(s)
    /\ ~CodeMissing(mfa_code)
    /\ garmin_obj[s] = NoGarmin => exc = "Exception"
    /\ needs_mfa' = [needs_mfa EXCEPT ![s] = FALSE]
    /\ screen' = [screen EXCEPT ![s] =
                    Render(authenticated[s], FALSE, token_files_exist(token_dir))]
    /\ log' = LogEntry(s, "mfa", <<mfa_code>>,
                       IF garmin_obj[s] = NoGarmin THEN NoCall
                       ELSE <<Call("resume_login", garmin_obj[s], mfa_data[s], mfa_code, "raised")>>,
                       {MfaBanner(exc)}, FALSE)
    /\ UNCHANGED <<authenticated, garmin_obj, mfa_data, token_dir>>

\* garmin.resume_login() raises (with garmin_obj None the attribute lookup
\* raises before any call is made): the banner is shown and the run goes on.
MfaFailed(s, mfa_code, exc) ==
    /\ MfaSubmitted(s)
    /\ ~CodeMissing(mfa_code)
    /\ garmin_obj[s] = NoGarmin => exc = "Exception"
    /\ screen' = [screen EXCEPT ![s] =
                    Render(authenticated[s], needs_mfa[s], token_files_exist(token_dir))]
    /\ log' = LogEntry(s, "mfa", <<mfa_code>>,
                       IF garmin_obj[s] = NoGarmin THEN NoCall
                       ELSE <<Call("resume_login", garmin_obj[s], mfa_data[s], mfa_code, "raised")>>,
                       {MfaBanner(exc)}, FALSE)
    /\ UNCHANGED <<session_state, token_dir>>

\* The success branch without the assignment to needs_mfa.
MfaOk_NeedsMfaKept(s, mfa_code) ==
    /\ MfaSubmitted(s)
    /\ ~CodeMissing(mfa_code)
    /\ garmin_obj[s] # NoGarmin
    /\ token_dir' = DumpOk(token_dir, s)
    /\ authenticated' = [authenticated EXCEPT ![s] = TRUE]
    /\ screen' = [screen EXCEPT ![s] =
                    Render(TRUE, needs_mfa[s], token_files_exist(token_dir'))]
    /\ log' = LogEntry(s, "mfa", <<mfa_code>>,
                       <<Call("resume_login", garmin_obj[s], mfa_data[s], mfa_code, "ok"),
                         Call("dump", garmin_obj[s], None, "", "ok")>>, {}, TRUE)
    /\ UNCHANGED <<needs_mfa, garmin_obj, mfa_data>>

\* garmin.resume_login() returns and the dump succeeds: the flags are set and
\* st.rerun() runs the script again.
MfaOk(s, mfa_code) ==
    /\ MfaSubmitted(s)
    /\ ~CodeMissing(mfa_code)
    /\ garmin_obj[s] # NoGarmin
    /\ token_dir' = DumpOk(token_dir, s)
    /\ authenticated' = [authenticated EXCEPT ![s] = TRUE]
    /\ needs_mfa' = [needs_mfa EXCEPT ![s] = FALSE]
    /\ screen' = [screen EXCEPT ![s] = Render(TRUE, FALSE, token_files_exist(token_dir'))]
    /\ log' = LogEntry(s, "mfa", <<mfa_code>>,
                       <<Call("resume_login", garmin_obj[s], mfa_data[s], mfa_code, "ok"),
                         Call("dump", garmin_obj[s], None, "", "ok")>>, {}, TRUE)
    /\ UNCHANGED <<garmin_obj, mfa_data>>

\* The flags assigned before the dump instead of after it.
MfaDumpFailed_FlagsSetFirst(s, mfa_code, k) ==
    /\ MfaSubmitted(s)
    /\ ~CodeMissing(mfa_code)
    /\ garmin_obj[s] # NoGarmin
    /\ token_dir' = DumpFailed(token_dir, s, k)
    /\ authenticated' = [authenticated EXCEPT ![s] = TRUE]
    /\ needs_mfa' = [needs_mfa EXCEPT ![s] = FALSE]
    /\ screen' = [screen EXCEPT ![s] = Render(TRUE, FALSE, token_files_exist(token_dir))]
    /\ log' = LogEntry(s, "mfa", <<mfa_code>>,
                       <<Call("resume_login", garmin_obj[s], mfa_data[s], mfa_code, "ok"),
                         Call("dump", garmin_obj[s], None, "", "raised")>>, {"Error"}, FALSE)
    /\ UNCHANGED <<garmin_obj, mfa_data>>

\* garmin.resume_login() returns and the dump raises after writing k files.
MfaDumpFailed(s, mfa_code, k) ==
    /\ MfaSubmitted(s)
    /\ ~CodeMissing(mfa_code)
    /\ garmin_obj[s] # NoGarmin
    /\ token_dir' = DumpFailed(token_dir, s, k)
    /\ screen' = [screen EXCEPT ![s] =
                    Render(authenticated[s], needs_mfa[s], token_files_exist(token_dir))]
    /\ log' = LogEntry(s, "mfa", <<mfa_code>>,
                       <<Call("resume_login", garmin_obj[s], mfa_data[s], mfa_code, "ok"),
                         Call("dump", garmin_obj[s], None, "", "raised")>>, {"Error"}, FALSE)
    /\ UNCHANGED session_state

Next ==
    \E s \in Sessions :
        \/ Rerun(s)
        \/ ClearTokensOk(s)
        \/ \E left \in SUBSET TokenFiles : ClearTokensFailed(s, left)
        \/ \E email \in Emails, password \in Passwords :
              \/ LoginValidationError(s, email, password)
              \/ \E exc \in Exceptions : LoginFailed(s, email, password, exc)
              \/ \E ctx \in Contexts : LoginNeedsMfa(s, email, password, ctx)
              \/ LoginOk(s, email, password)
              \/ \E k \in 0..(Len(DumpOrder) - 1) : LoginDumpFailed(s, email, password, k)
        \/ \E mfa_code \in MfaCodes :
              \/ MfaValidationError(s, mfa_code)
              \/ \E exc \in Exceptions : MfaFailed(s, mfa_code, exc)
              \/ MfaOk(s, mfa_code)
              \/ \E k \in 0..(Len(DumpOrder) - 1) : MfaDumpFailed(s, mfa_code, k)

Spec == Init /\ [][Next]_vars

(* ------------------------------------------------- dumps that take time *)

\* Sessions run in threads of one process and TOKEN_DIR is not locked, so a
\* dump can be overtaken between two of its writes.  The actions below split
\* a returning dump at its last write: the run stays inside the spinner with
\* all but the last file written, and other sessions run in between.

\* The last file garth.dump writes.
LastFile == DumpOrder[Len(DumpOrder)]

\* garmin.login() returned without a challenge and the dump has written all
\* but its last file.
LoginDumpWrites(s, email, password) ==
    LET garmin == Garmin(email, password) IN
    /\ LoginSubmitted(s)
    /\ ~InputMissing(email, password)
    /\ token_dir' = DumpFailed(token_dir, s, Len(DumpOrder) - 1)
    /\ screen' = [screen EXCEPT ![s] = {"login_spinner"}]
    /\ log' = LogEntry(s, "login", <<email, password>>,
                       <<Call("login", garmin, None, "", "ok"),
                         Call("dump", garmin, None, "", "writing")>>, {}, FALSE)
    /\ UNCHANGED session_state

\* That dump writes its last file and returns: the flag is set and
\* st.rerun() runs the script again.
LoginDumpReturns(s, email, password) ==
    /\ screen[s] = {"login_spinner"}
    /\ ~InputMissing(email, password)
    /\ token_dir' = [token_dir EXCEPT ![LastFile] = s]
    /\ authenticated' = [authenticated EXCEPT ![s] = TRUE]
    /\ screen' = [screen EXCEPT ![s] =
                    Render(TRUE, needs_mfa[s], token_files_exist(token_dir'))]
    /\ log' = LogEntry(s, "login", <<email, password>>,
                       <<Call("dump", Garmin(email, password), None, "", "ok")>>, {}, TRUE)
    /\ UNCHANGED <<needs_mfa, garmin_obj, mfa_data>>

\* garmin.resume_login() returned and the dump has written all but its last
\* file.
MfaDumpWrites(s, mfa_code) ==
    /\ MfaSubmitted(s)
    /\ ~CodeMissing(mfa_code)
    /\ garmin_obj[s] # NoGarmin
    /\ token_dir' = DumpFailed(token_dir, s, Len(DumpOrder) - 1)
    /\ screen' = [screen EXCEPT ![s] = {"mfa_spinner"}]
    /\ log' = LogEntry(s, "mfa", <<mfa_code>>,
                       <<Call("resume_login", garmin_obj[s], mfa_data[s], mfa_code, "ok"),
                         Call("dump", garmin_obj[s], None, "", "writing")>>, {}, FALSE)
    /\ UNCHANGED session_state

\* That dump writes its last file and returns.
MfaDumpReturns(s, mfa_code) ==
    /\ screen[s] = {"mfa_spinner"}
    /\ ~CodeMissing(mfa_code)
    /\ token_dir' = [token_dir EXCEPT ![LastFile] = s]
    /\ authenticated' = [authenticated EXCEPT ![s] = TRUE]
    /\ needs_mfa' = [needs_mfa EXCEPT ![s] = FALSE]
    /\ screen' = [screen EXCEPT ![s] = Render(TRUE, FALSE, token_files_exist(token_dir'))]
    /\ log' = LogEntry(s, "mfa", <<mfa_code>>,
                       <<Call("dump", garmin_obj[s], None, "", "ok")>>, {}, TRUE)
    /\ UNCHANGED <<garmin_obj, mfa_data>>

NextConcurrent ==
    \/ Next
    \/ \E s \in Sessions :
        \/ \E email \in Emails, password \in Passwords :
              \/ LoginDumpWrites(s, email, password)
              \/ LoginDumpReturns(s, email, password)
        \/ \E mfa_code \in MfaCodes :
              \/ MfaDumpWrites(s, mfa_code)
              \/ MfaDumpReturns(s, mfa_code)

SpecConcurrent == Init /\ [][NextConcurrent]_vars

(* ------------------------------------------------------------------ types *)

TypeOK ==
    /\ authenticated \in [Sessions -> BOOLEAN]
    /\ needs_mfa \in [Sessions -> BOOLEAN]
    /\ garmin_obj \in [Sessions -> GarminObjs \cup {NoGarmin}]
    /\ mfa_data \in [Sessions -> Contexts \cup {None}]
    /\ token_dir \in [TokenFiles -> Writers \cup {NoFile}]
    /\ screen \in [Sessions -> SUBSET Widgets]
    /\ log.session \in Sessions \cup {0}

(* ----------------------------------------------------------------- claims *)

\* The calls of the last run that are dumps.
DumpCalls == {i \in 1..Len(log.calls) : log.calls[i].op = "dump"}
\* The last run made a dump call and it raised.
DumpRaised == \E i \in DumpCalls : log.calls[i].result = "raised"
\* The last run was a login submission whose login() call returned result.
LoginReturned(result) ==
    /\ log.event = "login"
    /\ log.calls # NoCall
    /\ log.calls[1].op = "login"
    /\ log.calls[1].result = result

\* C1: in every reachable state, authenticated implies that garmin_obj and
\* mfa_data are both None (cleared).
C1_AuthenticatedImpliesCleared ==
    \A s \in Sessions :
        authenticated[s] => garmin_obj[s] = NoGarmin /\ mfa_data[s] = None

\* C2: after a clear-tokens run in which every deletion succeeded, the render
\* that follows treats the session as not authenticated: no token files, the
\* login form is rendered and the success confirmation is not.
C2_ClearResetsAuthenticated ==
    (log.event = "clear" /\ log.errors = {}) =>
        /\ ~token_files_exist(token_dir)
        /\ "login_form" \in screen[log.session]
        /\ "success" \notin screen[log.session]

\* C3: in every reachable state, needs_mfa implies that garmin_obj and
\* mfa_data are both present.
C3_NeedsMfaImpliesChallengeStored ==
    \A s \in Sessions :
        needs_mfa[s] => garmin_obj[s] # NoGarmin /\ mfa_data[s] # None

\* A session with a pending challenge whose code was just rejected.
C3_Witness ==
    /\ log.event = "mfa"
    /\ log.errors = {"MFA verification failed"}
    /\ needs_mfa[log.session]

C5_ExactlyOneView ==
    \A s \in Sessions :
        Cardinality(screen[s] \cap {"login_form", "mfa_form", "success"}) = 1

\* C6: a login() call that returned "needs_mfa" sets needs_mfa, stores the
\* returned context and the Garmin object it was called on, makes no dump
\* call and leaves authenticated false.
C6_SentinelStoresChallenge ==
    LoginReturned("needs_mfa") =>
        /\ needs_mfa[log.session]
        /\ mfa_data[log.session] = log.calls[1].ctx
        /\ mfa_data[log.session] \in Contexts
        /\ garmin_obj[log.session] = log.calls[1].on
        /\ garmin_obj[log.session] # NoGarmin
        /\ DumpCalls = {}
        /\ ~authenticated[log.session]

\* A login that returned the sentinel, after the rerun that shows the MFA form.
C6_Witness ==
    /\ LoginReturned("needs_mfa")
    /\ log.calls[1].ctx = NumContexts
    /\ "mfa_form" \in screen[log.session]

\* C7: a login() call that returned anything but the sentinel is followed by
\* exactly one dump call in the same run, and when that dump returns,
\* authenticated is true.
C7_LoginSuccessPersists ==
    LoginReturned("ok") =>
        /\ Len(log.calls) = 2
        /\ DumpCalls = {2}
        /\ log.calls[2].on = log.calls[1].on
        /\ (log.calls[2].result = "ok" => authenticated[log.session])

\* A login without challenge whose dump returned.
C7_Witness ==
    /\ LoginReturned("ok")
    /\ log.calls[2].result = "ok"
    /\ authenticated[log.session]
    /\ token_files_exist(token_dir)

C9_EmptyCredentialsRejected ==
    [][(log'.event = "login" /\ (log'.input[1] = "" \/ log'.input[2] = "")) =>
        /\ log'.calls = NoCall
        /\ log'.errors = {"Please enter both email and password."}
        /\ ~log'.rerun
        /\ session_state' = session_state
        /\ token_dir' = token_dir]_vars

\* A submission with an email and no password, challenge pending.
C9_Witness ==
    /\ log.event = "login"
    /\ log.input = <<"a@b.com", "">>
    /\ log.errors # {}
    /\ needs_mfa[log.session]

\* C10: resume_login is called only in a session with needs_mfa true and
\* authenticated false, on the stored garmin_obj and with the stored mfa_data.
C10_ResumeOnlyWhenPending ==
    [][\A i \in 1..Len(log'.calls) :
        log'.calls[i].op = "resume_login" =>
            /\ needs_mfa[log'.session]
            /\ ~authenticated[log'.session]
            /\ garmin_obj[log'.session] # NoGarmin
            /\ log'.calls[i].on = garmin_obj[log'.session]
            /\ log'.calls[i].ctx = mfa_data[log'.session]
            /\ log'.calls[i].code # ""]_vars

\* A resume call that returned and whose dump returned.
C10_Witness ==
    /\ log.event = "mfa"
    /\ log.calls # NoCall
    /\ log.calls[1].result = "ok"
    /\ authenticated[log.session]
    /\ mfa_data[log.session] = NumContexts

\* The last run made a resume_login call and it raised.
ResumeRaised ==
    \E i \in 1..Len(log.calls) :
        log.calls[i].op = "resume_login" /\ log.calls[i].result = "raised"
\* The last run made a dump call and it returned.
DumpReturned == \E i \in DumpCalls : log.calls[i].result = "ok"
\* The last run was an MFA submission whose resume_login and dump both returned.
MfaCompleted ==
    /\ log.event = "mfa"
    /\ Len(log.calls) = 2
    /\ log.calls[1].op = "resume_login" /\ log.calls[1].result = "ok"
    /\ log.calls[2].op = "dump" /\ log.calls[2].result = "ok"

\* The session of the last run can submit the MFA form / the login form.
MfaResubmittable == MfaSubmitted(log.session)
LoginResubmittable == LoginSubmitted(log.session)

\* C11: a run in which resume_login raises leaves the session with needs_mfa
\* true, authenticated false and garmin_obj and mfa_data as they were, writes
\* nothing to the token directory, shows the banner without rerunning, and
\* leaves the MFA form submittable again.
C11_ResumeFailureKeepsChallenge ==
    [][ResumeRaised' =>
        /\ session_state' = session_state
        /\ needs_mfa'[log'.session]
        /\ ~authenticated'[log'.session]
        /\ token_dir' = token_dir
        /\ DumpCalls' = {}
        /\ log'.errors \in {{"MFA verification failed"}, {"Error"}}
        /\ ~log'.rerun
        /\ MfaResubmittable']_vars

\* A code rejected with an exception other than the authentication error.
C11_Witness ==
    /\ ResumeRaised
    /\ log.errors = {"Error"}
    /\ "mfa_form" \in screen[log.session]

\* C12: a run in which login() raises changes neither the session state nor
\* the token directory, shows an error banner, and leaves the login form
\* submittable again.
C12_LoginFailureKeepsState ==
    [][LoginReturned("raised")' =>
        /\ session_state' = session_state
        /\ token_dir' = token_dir
        /\ Len(log'.calls) = 1
        /\ log'.errors \in {{"Authentication failed"}, {"Error"}}
        /\ ~log'.rerun
        /\ LoginResubmittable']_vars

\* Bad credentials: the authentication error banner, the form still shown.
C12_Witness ==
    /\ LoginReturned("raised")
    /\ log.errors = {"Authentication failed"}
    /\ "login_form" \in screen[log.session]

\* C13: a run that finds an entry in the token directory makes no login()
\* call, and a render that finds one does not show the login form, whatever
\* the session state (after st.rerun() the render is the one of the new run).
C13_TokensGateLogin ==
    [][/\ token_files_exist(token_dir) =>
            \A i \in 1..Len(log'.calls) : log'.calls[i].op # "login"
       /\ (IF log'.rerun THEN token_files_exist(token_dir')
                         ELSE token_files_exist(token_dir)) =>
            "login_form" \notin screen'[log'.session]]_vars

\* A session with a pending challenge rendered over a non-empty directory.
C13_Witness ==
    /\ log.event = "rerun"
    /\ token_files_exist(token_dir)
    /\ needs_mfa[log.session] /\ ~authenticated[log.session]
    /\ "login_form" \notin screen[log.session]

\* C14: a clear in which no deletion failed leaves no entry in the token
\* directory, and the render that follows finds no token files.
C14_ClearEmptiesDirectory ==
    (log.event = "clear" /\ log.errors = {}) =>
        /\ \A f \in TokenFiles : token_dir[f] = NoFile
        /\ ~token_files_exist(token_dir)
        /\ "clear_button" \notin screen[log.session]
        /\ log.rerun

\* A successful clear in a session that never logged in: back to the form.
C14_Witness ==
    /\ log.event = "clear" /\ log.errors = {}
    /\ ~authenticated[log.session]
    /\ screen[log.session] = {"login_form"}

\* C15: with an empty directory the first render shows the login form; a
\* login() that returns the sentinel with a context shows the MFA form with
\* that context stored; a resume_login and dump that both return leave
\* authenticated true, needs_mfa false, the bundle in the token directory
\* and the success notice on the page with neither form.
C15_MfaScenario ==
    /\ (log.event = "start" /\ ~token_files_exist(token_dir)) =>
            \A s \in Sessions : screen[s] = {"login_form"}
    /\ LoginReturned("needs_mfa") =>
            /\ "mfa_form" \in screen[log.session]
            /\ mfa_data[log.session] = log.calls[1].ctx
    /\ MfaCompleted =>
            /\ authenticated[log.session]
            /\ ~needs_mfa[log.session]
            /\ token_files_exist(token_dir)
            /\ \A f \in TokenFiles : token_dir[f] = log.session
            /\ screen[log.session] = {"clear_button", "success"}

\* The end of the scenario: context 1 resumed with code "123456".
C15_Witness ==
    /\ MfaCompleted
    /\ log.calls[1].ctx = 1
    /\ log.calls[1].code = "123456"
    /\ "success" \in screen[log.session]

\* C16: authenticated becomes true in a session only in a run of that
\* session in which a dump call returned.
C16_AuthenticatedOnlyByDump ==
    [][\A s \in Sessions :
        (~authenticated[s] /\ authenticated'[s]) =>
            /\ log'.session = s
            /\ DumpReturned'
            /\ ~DumpRaised']_vars

\* A session authenticated by the dump of its MFA step.
C16_Witness ==
    /\ log.event = "mfa"
    /\ DumpReturned
    /\ authenticated[log.session]

\* The last run returned from a dump that no other run overlapped: the call
\* that led to it and all its writes are in this one step.
DumpNotOvertaken ==
    /\ DumpReturned
    /\ Len(log.calls) = 2

C18_ClearFailureReported ==
    [][(log'.event = "clear" /\ log'.errors # {}) =>
        /\ log'.errors = {"Error clearing tokens"}
        /\ ~log'.rerun
        /\ session_state' = session_state
        /\ \A f \in TokenFiles : token_dir'[f] \in {token_dir[f], NoFile}
        /\ "clear_button" \in screen'[log'.session]]_vars

\* A failed clear that had deleted the first file of an earlier run's bundle.
C18_Witness ==
    /\ log.event = "clear" /\ log.errors # {}
    /\ token_dir[DumpOrder[1]] = NoFile
    /\ token_dir[DumpOrder[2]] = PriorRun

\* C19: whenever garmin_obj and mfa_data are both present in a session,
\* mfa_data is the context returned by the login() call made on garmin_obj.
C19_ChallengeFromSameLogin ==
    \A s \in Sessions :
        (garmin_obj[s] # NoGarmin /\ mfa_data[s] # None) =>
            garmin_obj[s].login_result2 = mfa_data[s]

\* Two sessions holding different challenges.
C19_Witness ==
    \E s, t \in Sessions :
        /\ garmin_obj[s] # NoGarmin /\ garmin_obj[t] # NoGarmin
        /\ mfa_data[s] = 1 /\ mfa_data[t] = NumContexts

\* C20: an MFA submission with an empty code makes no resume_login or dump
\* call, shows the validation error and leaves the session state unchanged.
C20_EmptyCodeRejected ==
    [][(log'.event = "mfa" /\ log'.input[1] = "") =>
        /\ log'.calls = NoCall
        /\ log'.errors = {"Please enter the MFA code."}
        /\ ~log'.rerun
        /\ session_state' = session_state
        /\ token_dir' = token_dir]_vars

\* An empty code submitted while the challenge is pending.
C20_Witness ==
    /\ log.event = "mfa"
    /\ log.input = <<"">>
    /\ log.errors = {"Please enter the MFA code."}
    /\ needs_mfa[log.session]

====
